---- MODULE Spec2Model ----
(***************************************************************************)
(* Model of src/src/index.ts: the Slack approval gate.  Strings that the   *)
(* code matches with regular expressions are sequences of one-character    *)
(* strings; every other string is a TLA+ string.                           *)
(***************************************************************************)
EXTENDS Integers, Sequences, FiniteSets, Bags, TLC

\* ------------------------------------------------------------------ bounds
MaxActions == 2
MaxSignals == 1
MaxResolveEntries == 3

\* ------------------------------------------------------------- characters
UpperLetters ==
  {"A","B","C","D","E","F","G","H","I","J","K","L","M",
   "N","O","P","Q","R","S","T","U","V","W","X","Y","Z"}

LowerLetters ==
  {"a","b","c","d","e","f","g","h","i","j","k","l","m",
   "n","o","p","q","r","s","t","u","v","w","x","y","z"}

Digits == {"0","1","2","3","4","5","6","7","8","9"}

Whitespace == {" ", "\t", "\n"}

\* The character class [A-Z0-9] under the i flag.
IsIdChar(c) == c \in UpperLetters \cup LowerLetters \cup Digits

\* Equality of two characters under the i flag, for the letters the
\* patterns name literally.
SameLetter(c, lit) ==
  \/ c = lit
  \/ lit = "S" /\ c = "s"
  \/ lit = "U" /\ c = "u"
  \/ lit = "s" /\ c = "S"
  \/ lit = "u" /\ c = "U"
  \/ lit = "b" /\ c = "B"
  \/ lit = "t" /\ c = "T"
  \/ lit = "e" /\ c = "E"
  \/ lit = "a" /\ c = "A"
  \/ lit = "m" /\ c = "M"

\* String.prototype.trim
RECURSIVE TrimLeft(_)
TrimLeft(s) ==
  IF s # <<>> /\ Head(s) \in Whitespace THEN TrimLeft(Tail(s)) ELSE s

RECURSIVE TrimRight(_)
TrimRight(s) ==
  IF s # <<>> /\ s[Len(s)] \in Whitespace
    THEN TrimRight(SubSeq(s, 1, Len(s) - 1))
    ELSE s

trim(s) == TrimRight(TrimLeft(s))

\* /^(X[A-Z0-9]+)$/i for the letter X
MatchBareId(s, X) ==
  /\ Len(s) >= 2
  /\ SameLetter(s[1], X)
  /\ \A i \in 2..Len(s) : IsIdChar(s[i])

SubteamPrefix == <<"<","@","s","u","b","t","e","a","m","^">>

\* /^<@subteam\^(S[A-Z0-9]+)>$/i
MatchGroupMention(s) ==
  /\ Len(s) > Len(SubteamPrefix) + 1
  /\ \A i \in 1..Len(SubteamPrefix) : SameLetter(s[i], SubteamPrefix[i])
  /\ s[Len(s)] = ">"
  /\ MatchBareId(SubSeq(s, Len(SubteamPrefix) + 1, Len(s) - 1), "S")

\* /^<@(U[A-Z0-9]+)>$/i
MatchUserMention(s) ==
  /\ Len(s) > 3
  /\ s[1] = "<"
  /\ s[2] = "@"
  /\ s[Len(s)] = ">"
  /\ MatchBareId(SubSeq(s, 3, Len(s) - 1), "U")

\* userGroupMatch: the two group patterns, tried in order
IsUserGroup(s) == MatchGroupMention(s) \/ MatchBareId(s, "S")

\* userGroupMatch[1] || userGroupMatch[0]
GroupIdOf(s) ==
  IF MatchGroupMention(s)
    THEN SubSeq(s, Len(SubteamPrefix) + 1, Len(s) - 1)
    ELSE s

\* `<@subteam^${groupId}>`
GroupMention(groupId) == SubteamPrefix \o groupId \o <<">">>

\* userMatch[1] || userMatch[0], or the trimmed entry itself (fallback)
UserIdOf(s) ==
  IF MatchUserMention(s) THEN SubSeq(s, 3, Len(s) - 1) ELSE s

\* `<@${v}>`
UserMention(v) == <<"<","@">> \o v \o <<">">>

\* -------------------------------------------------------------- identifiers
U1 == <<"U","1">>
U2 == <<"U","2">>
U3 == <<"U","3">>
S1 == <<"S","1">>
S2 == <<"S","2">>

\* aid, and the value of a button that a different run attempt posted
aid == "repo-workflow-7-1-1"
staleAid == "repo-workflow-7-1-0"

\* Message payloads: the lengths of text and blocks, which is all hasPayload
\* reads, and a name that tells the payloads apart in a message.
EmptyPayload(n) == [name |-> n, text |-> 0, blocks |-> 0]
TextPayload(n) == [name |-> n, text |-> 1, blocks |-> 0]
BlocksPayload(n) == [name |-> n, text |-> 0, blocks |-> 1]

hasPayload(inputs) == inputs.text > 0 \/ inputs.blocks > 0

\* Responses of web.usergroups.users.list
Threw == [threw |-> TRUE, ok |-> FALSE, isArray |-> FALSE, users |-> <<>>]
NotOk == [threw |-> FALSE, ok |-> FALSE, isArray |-> FALSE, users |-> <<>>]
NoUsers == [threw |-> FALSE, ok |-> TRUE, isArray |-> FALSE, users |-> <<>>]
Users(us) == [threw |-> FALSE, ok |-> TRUE, isArray |-> TRUE, users |-> us]

\* ------------------------------------------------------------------- state
VARIABLES
  requiredApproversInput,  \* the approvers input, split at ","
  minimumApprovalCount,
  baseMessagePayload, successMessagePayload, failMessagePayload,
  requiredApprovers,       \* outstanding approvers
  userGroupIds,
  userGroupMentions,
  approvers,               \* confirmed approvers
  pc,                      \* position of run()
  lookups,                 \* responses of the group lookups made so far
  mainSent,                \* what the last call for the primary message sent
  replySent,               \* what the last call for the reply message sent
  handlers,                \* bag of the action handler invocations
  cancels,                 \* bag of the cancelHandler invocations
  exitCode                 \* Running, or the code the process exited with

vars ==
  <<requiredApproversInput, minimumApprovalCount, baseMessagePayload,
    successMessagePayload, failMessagePayload, requiredApprovers, userGroupIds,
    userGroupMentions, approvers, pc, lookups, mainSent, replySent,
    handlers, cancels, exitCode>>

config ==
  <<requiredApproversInput, minimumApprovalCount, baseMessagePayload,
    successMessagePayload, failMessagePayload>>

resolved == <<userGroupIds, userGroupMentions, lookups>>

\* The value of exitCode while the process runs
Running == -1
NoMessage == "none"

\* Sequences over S of length 1..n
SeqsUpTo(S, n) == UNION {[1..k -> S] : k \in 1..n}

\* ------------------------------------------------------------ construction
\* Lines 5-29: the module-level constants and the empty lists.
InitWith(inputs, counts, bases, successes, fails) ==
  /\ requiredApproversInput \in inputs
  /\ minimumApprovalCount \in counts
  /\ baseMessagePayload \in bases
  /\ successMessagePayload \in successes
  /\ failMessagePayload \in fails
  /\ requiredApprovers = <<>>
  /\ userGroupIds = <<>>
  /\ userGroupMentions = <<>>
  /\ approvers = <<>>
  /\ pc = "parse"
  /\ lookups = <<>>
  /\ mainSent = NoMessage
  /\ replySent = NoMessage
  /\ handlers = EmptyBag
  /\ cancels = EmptyBag
  /\ exitCode = Running

\* ----------------------------------------------------------------- startup
\* Lines 65-83, as a fold over the entries.
RECURSIVE ParseUsers(_)
ParseUsers(entries) ==
  IF entries = <<>> THEN <<>>
  ELSE LET trimmed == trim(Head(entries)) IN
       IF IsUserGroup(trimmed) THEN ParseUsers(Tail(entries))
       ELSE <<UserIdOf(trimmed)>> \o ParseUsers(Tail(entries))

RECURSIVE ParseGroups(_)
ParseGroups(entries) ==
  IF entries = <<>> THEN <<>>
  ELSE LET trimmed == trim(Head(entries)) IN
       IF IsUserGroup(trimmed)
         THEN <<GroupIdOf(trimmed)>> \o ParseGroups(Tail(entries))
         ELSE ParseGroups(Tail(entries))

includes(list, u) == \E i \in 1..Len(list) : list[i] = u

ParseApprovers ==
  /\ pc = "parse"
  /\ requiredApprovers' = ParseUsers(requiredApproversInput)
  /\ userGroupIds' = ParseGroups(requiredApproversInput)
  /\ userGroupMentions' =
       [i \in 1..Len(ParseGroups(requiredApproversInput)) |->
          GroupMention(ParseGroups(requiredApproversInput)[i])]
  /\ pc' = "expand"
  /\ UNCHANGED <<config, approvers, lookups, mainSent, replySent,
                 handlers, cancels, exitCode>>

\* Lines 50-60
getUserIdsFromUserGroup(res) ==
  IF ~res.threw /\ res.ok /\ res.isArray THEN res.users ELSE <<>>

\* Lines 88-92 without the includes test of line 89
PushAll(list, users) == list \o users

\* Lines 88-92
RECURSIVE PushMissing(_, _)
PushMissing(list, users) ==
  IF users = <<>> THEN list
  ELSE IF ~includes(list, Head(users))
         THEN PushMissing(Append(list, Head(users)), Tail(users))
         ELSE PushMissing(list, Tail(users))

\* Lines 86-93 with a lookup that has no try: a lookup that throws leaves the
\* loop for the catch of line 360
ExpandGroupAborting(responses) ==
  /\ pc = "expand"
  /\ Len(lookups) < Len(userGroupIds)
  /\ \E res \in responses :
       /\ lookups' = Append(lookups, res)
       /\ requiredApprovers' =
            PushMissing(requiredApprovers, getUserIdsFromUserGroup(res))
       /\ IF res.threw
            THEN pc' = "exited" /\ exitCode' = 1
            ELSE pc' = pc /\ exitCode' = exitCode
  /\ UNCHANGED <<config, userGroupIds, userGroupMentions, approvers,
                 mainSent, replySent, handlers, cancels>>

\* Lines 86-93: one turn of the loop, with the response of its lookup
ExpandGroup(responses) ==
  /\ pc = "expand"
  /\ Len(lookups) < Len(userGroupIds)
  /\ \E res \in responses :
       /\ lookups' = Append(lookups, res)
       /\ requiredApprovers' =
            PushMissing(requiredApprovers, getUserIdsFromUserGroup(res))
  /\ UNCHANGED <<config, userGroupIds, userGroupMentions, approvers, pc,
                 mainSent, replySent, handlers, cancels, exitCode>>

\* Lines 95-100 placed inside the loop of line 86: the check runs after the
\* parse and after each lookup
CheckMinimumPerGroup ==
  /\ pc = "expand"
  /\ IF minimumApprovalCount > Len(requiredApprovers)
       THEN pc' = "exited" /\ exitCode' = 1
       ELSE pc' = "postMain" /\ exitCode' = exitCode
  /\ UNCHANGED <<config, resolved, requiredApprovers, approvers, mainSent,
                 replySent, handlers, cancels>>

\* Lines 95-100
CheckMinimum ==
  /\ pc = "expand"
  /\ Len(lookups) = Len(userGroupIds)
  /\ IF minimumApprovalCount > Len(requiredApprovers)
       THEN pc' = "exited" /\ exitCode' = 1
       ELSE pc' = "postMain" /\ exitCode' = exitCode
  /\ UNCHANGED <<config, resolved, requiredApprovers, approvers, mainSent,
                 replySent, handlers, cancels>>

\* Lines 112-153
mainMessagePayload ==
  IF hasPayload(baseMessagePayload)
    THEN baseMessagePayload
    ELSE BlocksPayload("default")

\* Lines 155-169: the three parts of the status line
renderReplyTitle ==
  [count |-> minimumApprovalCount,
   remaining |-> userGroupMentions \o
                 [i \in 1..Len(requiredApprovers) |-> UserMention(requiredApprovers[i])],
   approvers |-> [i \in 1..Len(approvers) |-> UserMention(approvers[i])]]

\* Lines 171-208 with >= for the > of line 172
renderReplyBodyInclusive ==
  IF minimumApprovalCount >= Len(approvers)
    THEN [type |-> "actions", approve |-> aid, reject |-> aid]
    ELSE [type |-> "section", text |-> "Approved"]

\* Lines 171-208
renderReplyBody ==
  IF minimumApprovalCount > Len(approvers)
    THEN [type |-> "actions", approve |-> aid, reject |-> aid]
    ELSE [type |-> "section", text |-> "Approved"]

\* Lines 225-234: chat.update of baseMessageTs or chat.postMessage; a call
\* that throws is caught at line 360 and core.setFailed sets exit code 1.
PostMain ==
  /\ pc = "postMain"
  /\ mainSent' = mainMessagePayload.name
  /\ \E ok \in BOOLEAN :
       IF ok
         THEN pc' = "postReply" /\ exitCode' = exitCode
         ELSE pc' = "exited" /\ exitCode' = 1
  /\ UNCHANGED <<config, resolved, requiredApprovers, approvers, replySent,
                 handlers, cancels>>

\* Lines 236-244 and, when the post succeeded, the registrations of lines
\* 271-357.
PostReply ==
  /\ pc = "postReply"
  /\ replySent' = <<renderReplyTitle, renderReplyBody>>
  /\ \E ok \in BOOLEAN :
       IF ok
         THEN pc' = "listening" /\ exitCode' = exitCode
         ELSE pc' = "exited" /\ exitCode' = 1
  /\ UNCHANGED <<config, resolved, requiredApprovers, approvers, mainSent,
                 handlers, cancels>>

\* ----------------------------------------------------------------- approve
\* Array.prototype.findIndex, counted from 1; 0 stands for -1
findIndex(list, u) ==
  IF includes(list, u)
    THEN CHOOSE i \in 1..Len(list) :
           list[i] = u /\ \A j \in 1..(i - 1) : list[j] # u
    ELSE 0

\* list.splice(idx, 1)
splice(list, idx) ==
  [i \in 1..(Len(list) - 1) |-> IF i < idx THEN list[i] ELSE list[i + 1]]

\* Lines 210-223 with the test of line 218 made before the push of line 216
approveResultBeforePush(userId) ==
  IF findIndex(requiredApprovers, userId) = 0 THEN "notApproval"
  ELSE IF Len(approvers) < minimumApprovalCount THEN "remainApproval"
  ELSE "approved"

\* Lines 210-223: the value approve(userId) returns
approveResult(userId) ==
  IF findIndex(requiredApprovers, userId) = 0 THEN "notApproval"
  ELSE IF Len(approvers) + 1 < minimumApprovalCount THEN "remainApproval"
  ELSE "approved"

\* Lines 210-223 without the return of lines 212-214: splice(-1, 1) takes
\* the last element out
approveUnchecked(userId) ==
  /\ requiredApprovers' =
       IF findIndex(requiredApprovers, userId) = 0
         THEN splice(requiredApprovers, Len(requiredApprovers))
         ELSE splice(requiredApprovers, findIndex(requiredApprovers, userId))
  /\ approvers' = Append(approvers, userId)

\* Lines 210-223: the lists approve(userId) leaves
approve(userId) ==
  IF findIndex(requiredApprovers, userId) = 0
    THEN /\ requiredApprovers' = requiredApprovers
         /\ approvers' = approvers
    ELSE /\ requiredApprovers' =
              splice(requiredApprovers, findIndex(requiredApprovers, userId))
         /\ approvers' = Append(approvers, userId)

\* ---------------------------------------------------------------- handlers
Live == pc = "listening" /\ exitCode = Running

\* The payload a terminal edit of the primary message carries
finalPayload(configured) ==
  IF hasPayload(configured) THEN configured ELSE mainMessagePayload

\* B with one copy of h replaced by h2
Moved(B, h, h2) == (B (-) SetToBag({h})) (+) SetToBag({h2})

\* An invocation that has returned with the process running: its closure is
\* gone, what it decided stays on record.
Returned(h, decided) ==
  [kind |-> h.kind, user |-> <<>>, value |-> "", type |-> "", pc |-> "done",
   result |-> decided, blocks |-> <<>>, main |-> 0, reply |-> 0,
   confirmed |-> 0]

\* An invocation that has called process.exit
Exited(h) == [h EXCEPT !.pc = "done"]

\* Bolt hands a block action to the handler registered for its action_id;
\* the handler runs up to its first await (ack) at once.  main and reply
\* count the chat.update calls the invocation has issued for either message;
\* confirmed is the length of approvers when the invocation was past its
\* checks and its call of approve.
Deliver(clicks) ==
  /\ Live
  /\ BagCardinality(handlers) < MaxActions
  /\ \E c \in clicks :
       handlers' = handlers (+) SetToBag({
         [kind |-> c.kind, user |-> c.user, value |-> c.value, type |-> c.type,
          pc |-> "ack", result |-> "none", blocks |-> <<>>, main |-> 0,
          reply |-> 0, confirmed |-> 0]})
  /\ UNCHANGED <<config, resolved, requiredApprovers, approvers, pc,
                 mainSent, replySent, cancels, exitCode>>

\* Lines 279-284 and 317-322 without the comparison with aid
IgnoredByType(h) == h.type # "button"

\* Lines 279-284 and 317-322
Ignored(h) == h.type # "button" \/ h.value # aid

\* Lines 278-302: from the return of ack to the first chat.update
ApproveAck(h) ==
  /\ Live
  /\ h.kind = "approve"
  /\ h.pc = "ack"
  /\ UNCHANGED <<config, resolved, pc, cancels, exitCode>>
  /\ IF Ignored(h)
       THEN /\ handlers' = Moved(handlers, h, Returned(h, "ignored"))
            /\ UNCHANGED <<requiredApprovers, approvers, mainSent, replySent>>
       ELSE /\ approve(h.user)
            /\ IF approveResult(h.user) = "approved"
                 THEN /\ mainSent' = finalPayload(successMessagePayload).name
                      /\ replySent' = replySent
                      /\ handlers' = Moved(handlers, h,
                           [h EXCEPT !.pc = "main", !.result = "approved",
                                     !.main = 1,
                                     !.confirmed = Len(approvers')])
                 ELSE /\ mainSent' = mainSent
                      /\ replySent' = <<renderReplyTitle', renderReplyBody'>>
                      /\ handlers' = Moved(handlers, h,
                           [h EXCEPT !.pc = "reply",
                                     !.result = approveResult(h.user),
                                     !.reply = 1,
                                     !.confirmed = Len(approvers')])

\* Lines 289-302 without the catch of line 303: an edit that throws ends the
\* invocation before line 307
ApproveMainDoneUncaught(h) ==
  /\ Live
  /\ h.kind = "approve"
  /\ h.pc = "main"
  /\ \E ok \in BOOLEAN :
       IF ok
         THEN /\ replySent' = <<renderReplyTitle, renderReplyBody>>
              /\ handlers' = Moved(handlers, h,
                   [h EXCEPT !.pc = "reply", !.reply = 1])
         ELSE /\ replySent' = replySent
              /\ handlers' = Moved(handlers, h, Returned(h, h.result))
  /\ UNCHANGED <<config, resolved, requiredApprovers, approvers, pc,
                 mainSent, cancels, exitCode>>

\* Lines 289-302: the edit of the primary message returns; on success the
\* reply is rendered and its edit issued, on failure the catch of line 303
\* leads to line 307.
ApproveMainDone(h) ==
  /\ Live
  /\ h.kind = "approve"
  /\ h.pc = "main"
  /\ \E ok \in BOOLEAN :
       IF ok
         THEN /\ replySent' = <<renderReplyTitle, renderReplyBody>>
              /\ handlers' = Moved(handlers, h,
                   [h EXCEPT !.pc = "reply", !.reply = 1])
              /\ exitCode' = exitCode
         ELSE /\ replySent' = replySent
              /\ handlers' = Moved(handlers, h, Exited(h))
              /\ exitCode' = 0
  /\ UNCHANGED <<config, resolved, requiredApprovers, approvers, pc,
                 mainSent, cancels>>

\* Lines 297-309: the edit of the reply message returns, or throws into the
\* catch of line 303
ApproveReplyDone(h) ==
  /\ Live
  /\ h.kind = "approve"
  /\ h.pc = "reply"
  /\ IF h.result = "approved"
       THEN handlers' = Moved(handlers, h, Exited(h)) /\ exitCode' = 0
       ELSE handlers' = Moved(handlers, h, Returned(h, h.result)) /\ exitCode' = exitCode
  /\ UNCHANGED <<config, resolved, requiredApprovers, approvers, pc,
                 mainSent, replySent, cancels>>

\* Lines 324-332: the blocks of the message the button was in (body.message,
\* whatever the platform sent), less the last, and the rejection notice
responseBlocks(h) ==
  <<[type |-> "body.message.blocks", less |-> 1],
    [type |-> "section", text |-> "Rejected by", user |-> h.user]>>

\* Lines 316-340: from the return of ack to the first chat.update
RejectAck(h) ==
  /\ Live
  /\ h.kind = "reject"
  /\ h.pc = "ack"
  /\ IF Ignored(h)
       THEN /\ handlers' = Moved(handlers, h, Returned(h, "ignored"))
            /\ mainSent' = mainSent
       ELSE /\ handlers' = Moved(handlers, h,
                 [h EXCEPT !.pc = "main", !.result = "rejected",
                           !.blocks = responseBlocks(h), !.main = 1,
                           !.confirmed = Len(approvers)])
            /\ mainSent' = finalPayload(failMessagePayload).name
  /\ UNCHANGED <<config, resolved, requiredApprovers, approvers, pc,
                 replySent, cancels, exitCode>>

\* Lines 334-352: the edit of the primary message returns; on success the
\* edit of the reply is issued, on failure the catch of line 348 leads to
\* line 352.
RejectMainDone(h) ==
  /\ Live
  /\ h.kind = "reject"
  /\ h.pc = "main"
  /\ \E ok \in BOOLEAN :
       IF ok
         THEN /\ replySent' = h.blocks
              /\ handlers' = Moved(handlers, h,
                   [h EXCEPT !.pc = "reply", !.reply = 1])
              /\ exitCode' = exitCode
         ELSE /\ replySent' = replySent
              /\ handlers' = Moved(handlers, h, Exited(h))
              /\ exitCode' = 1
  /\ UNCHANGED <<config, resolved, requiredApprovers, approvers, pc,
                 mainSent, cancels>>

\* Lines 342-352: the edit of the reply message returns, or throws into the
\* catch of line 348
RejectReplyDone(h) ==
  /\ Live
  /\ h.kind = "reject"
  /\ h.pc = "reply"
  /\ handlers' = Moved(handlers, h, Exited(h))
  /\ exitCode' = 1
  /\ UNCHANGED <<config, resolved, requiredApprovers, approvers, pc,
                 mainSent, replySent, cancels>>

\* ------------------------------------------------------------ cancellation
\* Lines 271-273 and 246-253: SIGTERM, SIGINT or SIGBREAK starts cancelHandler,
\* which runs up to its first chat.update.  (Before line 271 a signal has its
\* default disposition, which is left out.)  confirmed is the length of
\* approvers when the signal arrived.
Signal ==
  /\ Live
  /\ BagCardinality(cancels) < MaxSignals
  /\ cancels' = cancels (+) SetToBag({
       [pc |-> "main", main |-> 1, reply |-> 0, confirmed |-> Len(approvers)]})
  /\ mainSent' = finalPayload(failMessagePayload).name
  /\ UNCHANGED <<config, resolved, requiredApprovers, approvers, pc,
                 replySent, handlers, exitCode>>

\* cancelHandler has no catch: a chat.update that throws rejects the promise
\* of the handler.  Node ends the process with code 1 on an unhandled
\* rejection from version 15 on and only warns before.
UnhandledRejection == {1, Running}

\* Lines 247-267: the edit of the primary message returns
CancelMainDone(c) ==
  /\ Live
  /\ c.pc = "main"
  /\ \E ok \in BOOLEAN :
       IF ok
         THEN /\ replySent' = <<[type |-> "section", text |-> "Canceled"]>>
              /\ cancels' = Moved(cancels, c, [c EXCEPT !.pc = "reply", !.reply = 1])
              /\ exitCode' = exitCode
         ELSE /\ replySent' = replySent
              /\ cancels' = Moved(cancels, c, [c EXCEPT !.pc = "done"])
              /\ exitCode' \in UnhandledRejection
  /\ UNCHANGED <<config, resolved, requiredApprovers, approvers, pc,
                 mainSent, handlers>>

\* Lines 254-268: the edit of the reply message returns
CancelReplyDone(c) ==
  /\ Live
  /\ c.pc = "reply"
  /\ \E ok \in BOOLEAN :
       IF ok THEN exitCode' = 1 ELSE exitCode' \in UnhandledRejection
  /\ cancels' = Moved(cancels, c, [c EXCEPT !.pc = "done"])
  /\ UNCHANGED <<config, resolved, requiredApprovers, approvers, pc,
                 mainSent, replySent, handlers>>

\* ---------------------------------------------------------- specifications
\* The run with its handlers.
Inputs == {<<U1>>, <<U1, U1>>, <<U1, S1>>, <<S1>>}
GroupResponses == {Threw, Users(<<U2, U3>>)}
Click(k, u, v) == [kind |-> k, user |-> u, value |-> v, type |-> "button"]
Clicks ==
  {Click("approve", U1, aid), Click("approve", U2, aid),
   Click("reject", U2, aid),
   Click("approve", U1, staleAid), Click("reject", U2, staleAid),
   [kind |-> "approve", user |-> U1, value |-> aid, type |-> "static_select"]}

Init ==
  InitWith(Inputs, 1..2, {EmptyPayload("base")},
           {TextPayload("success")}, {EmptyPayload("fail"), BlocksPayload("fail")})

Next ==
  \/ ParseApprovers
  \/ ExpandGroup(GroupResponses)
  \/ CheckMinimum
  \/ PostMain
  \/ PostReply
  \/ Deliver(Clicks)
  \/ \E h \in BagToSet(handlers) : ApproveAck(h)
  \/ \E h \in BagToSet(handlers) : ApproveMainDone(h)
  \/ \E h \in BagToSet(handlers) : ApproveReplyDone(h)
  \/ \E h \in BagToSet(handlers) : RejectAck(h)
  \/ \E h \in BagToSet(handlers) : RejectMainDone(h)
  \/ \E h \in BagToSet(handlers) : RejectReplyDone(h)
  \/ Signal
  \/ \E c \in BagToSet(cancels) : CancelMainDone(c)
  \/ \E c \in BagToSet(cancels) : CancelReplyDone(c)

Spec == Init /\ [][Next]_vars

\* The startup alone, over more kinds of approver entries and lookup results.
\* "sam" is a name that the group pattern of line 68 takes for a group id.
ResolvePool ==
  {U1, <<" ">> \o UserMention(U1) \o <<" ">>, <<"b","o","b">>,
   <<"s","a","m">>, S1, GroupMention(S2)}
ResolveResponses ==
  {Threw, NotOk, NoUsers, Users(<<U1, U3>>), Users(<<U3, U2, U3>>)}

InitResolve ==
  InitWith(SeqsUpTo(ResolvePool, MaxResolveEntries), 1..3,
           {TextPayload("base")}, {TextPayload("success")},
           {EmptyPayload("fail")})

NextResolve ==
  \/ ParseApprovers
  \/ ExpandGroup(ResolveResponses)
  \/ CheckMinimum
  \/ PostMain
  \/ PostReply

SpecResolve == InitResolve /\ [][NextResolve]_vars

\* ================================================================== claims
Range(seq) == {seq[i] : i \in 1..Len(seq)}

NoDuplicates(seq) ==
  \A i, j \in 1..Len(seq) : i # j => seq[i] # seq[j]

\* seq without its i-th element
Without(seq, i) == SubSeq(seq, 1, i - 1) \o SubSeq(seq, i + 1, Len(seq))

\* The first position of x in seq
FirstPos(seq, x) ==
  CHOOSE i \in 1..Len(seq) : seq[i] = x /\ \A j \in 1..(i - 1) : seq[j] # x

\* seq with every element kept at its first appearance only
RECURSIVE FirstAppearances(_)
FirstAppearances(seq) ==
  IF seq = <<>> THEN <<>>
  ELSE LET before == FirstAppearances(SubSeq(seq, 1, Len(seq) - 1)) IN
       IF seq[Len(seq)] \in Range(before) THEN before
       ELSE Append(before, seq[Len(seq)])

\* The entries of the input that name an individual, as identifiers, in
\* input order
IsIndividual(entry) == ~IsUserGroup(trim(entry))

DirectIds ==
  LET direct == SelectSeq(requiredApproversInput, IsIndividual)
  IN  [i \in 1..Len(direct) |-> UserIdOf(trim(direct[i]))]

\* The members the lookups made so far returned, in lookup order; a lookup
\* that threw or was not ok returned none
RECURSIVE Members(_)
Members(responses) ==
  IF responses = <<>> THEN <<>>
  ELSE LET r == Head(responses) IN
       (IF r.threw \/ ~r.ok \/ ~r.isArray THEN <<>> ELSE r.users)
         \o Members(Tail(responses))

\* The number of approvers the resolution yields
ResolvedCount ==
  Len(DirectIds) + Cardinality(Range(Members(lookups)) \ Range(DirectIds))

Resolved == pc \notin {"parse", "expand"}

\* C8: when minimumApprovalCount exceeds the number of approvers resolved, the
\* run has exit code 1 and nothing was sent for the primary or the reply
\* message; the check is made only when every group has been looked up, so a
\* run whose count is reached thanks to group members does not fail at it.
C8_InsufficientApproversFail ==
  Resolved =>
    /\ Len(lookups) = Len(userGroupIds)
    /\ minimumApprovalCount > Len(requiredApprovers) =>
         exitCode = 1 /\ mainSent = NoMessage /\ replySent = NoMessage
    /\ minimumApprovalCount <= Len(requiredApprovers) =>
         (exitCode = 1 => mainSent # NoMessage)

\* A run with a group that contributed members and still too few approvers
C8_Witness ==
  /\ pc = "exited"
  /\ exitCode = 1
  /\ mainSent = NoMessage
  /\ Len(requiredApprovers) > Len(DirectIds)
  /\ minimumApprovalCount > Len(requiredApprovers)

\* C9: an input of individual references only resolves to each individual
\* once, in order of first appearance.
C9_IndividualsOnce ==
  (pc # "parse" /\ \A i \in 1..Len(requiredApproversInput) :
                     IsIndividual(requiredApproversInput[i]))
    => requiredApprovers = FirstAppearances(DirectIds)

\* C10: the resolved list is the directly listed individuals in input order,
\* followed by the group members not already listed, each once, in lookup
\* order.
C10_GroupMembersAppended ==
  pc # "parse" =>
    LET n == Len(DirectIds)
        tail == SubSeq(requiredApprovers, n + 1, Len(requiredApprovers))
        members == Members(lookups)
    IN  /\ Len(requiredApprovers) >= n
        /\ SubSeq(requiredApprovers, 1, n) = DirectIds
        /\ Range(tail) = Range(members) \ Range(DirectIds)
        /\ NoDuplicates(tail)
        /\ \A i, j \in 1..Len(tail) :
             i < j => FirstPos(members, tail[i]) < FirstPos(members, tail[j])

\* A group listed before an individual, and two groups that share U3, with
\* U1 both listed and a member
C10_Witness ==
  /\ Resolved
  /\ Len(requiredApproversInput) = 3
  /\ ~IsIndividual(requiredApproversInput[1])
  /\ IsIndividual(requiredApproversInput[2])
  /\ lookups = <<Users(<<U1, U3>>), Users(<<U3, U2, U3>>)>>
  /\ requiredApprovers = <<U1, U3, U2>>

\* ---- the run
\* The invocations of the action handlers and of cancelHandler
Invocations == BagToSet(handlers)
Cancellations == BagToSet(cancels)

\* The number of copies bag B holds of the elements of S
RECURSIVE CountIn(_, _)
CountIn(B, S) ==
  IF S = {} THEN 0
  ELSE LET x == CHOOSE x \in S : TRUE IN
       CopiesIn(x, B) + CountIn(B, S \ {x})

\* This step resumes invocation h ...
Resumes(h) == CopiesIn(h, handlers') < CopiesIn(h, handlers)

\* ... and leaves it as After
After == CHOOSE h2 \in BagToSet(handlers') :
           CopiesIn(h2, handlers') > CopiesIn(h2, handlers)

\* An approve action with the run's token, about to call approve(h.user)
CallsApprove(h) ==
  h.kind = "approve" /\ h.pc = "ack" /\ h.type = "button" /\ h.value = aid

\* C1: once the approvers are resolved, no identifier is outstanding and
\* confirmed at once, and the two lists together are as long as the resolved
\* list was.
C1_ListsDisjoint ==
  pc = "listening" =>
    /\ Range(requiredApprovers) \cap Range(approvers) = {}
    /\ Len(approvers) + Len(requiredApprovers) = ResolvedCount

\* C2: approve(x) for an x that is not outstanding returns notApproval and
\* leaves both lists as they were, every time it is called.
C2_NotEligibleNoOp ==
  [][\A h \in Invocations :
       (CallsApprove(h) /\ Resumes(h) /\ h.user \notin Range(requiredApprovers))
         => /\ After.result = "notApproval"
            /\ requiredApprovers' = requiredApprovers
            /\ approvers' = approvers]_vars

\* approve(x) was called twice for an x that is not outstanding
C2_Witness ==
  /\ exitCode = Running
  /\ \E h \in Invocations : h.result = "notApproval" /\ h.pc = "done"
  /\ \E h \in Invocations :
       h.result = "notApproval" /\ h.pc = "reply" /\ h.user = U2
  /\ requiredApprovers = <<U1>>
  /\ approvers = <<>>

\* C3: approve(x) for an outstanding x takes one x out of the outstanding
\* list, appends x to the confirmed list, and returns approved exactly when
\* the confirmed list has then reached minimumApprovalCount, else
\* remainApproval.
C3_ApproveMoves ==
  [][\A h \in Invocations :
       (CallsApprove(h) /\ Resumes(h) /\ h.user \in Range(requiredApprovers))
         => /\ \E i \in 1..Len(requiredApprovers) :
                 /\ requiredApprovers[i] = h.user
                 /\ requiredApprovers' = Without(requiredApprovers, i)
            /\ approvers' = Append(approvers, h.user)
            /\ After.result =
                 IF Len(approvers') >= minimumApprovalCount
                   THEN "approved" ELSE "remainApproval"]_vars

\* The example: of U1, U2, U3 with two approvals needed, U1 approved
\* (remainApproval) and then U2 (approved)
C3_Witness ==
  /\ minimumApprovalCount = 2
  /\ approvers = <<U1, U2>>
  /\ requiredApprovers = <<U3>>
  /\ \E h \in Invocations : h.result = "remainApproval" /\ h.pc = "done"
  /\ \E h \in Invocations :
       h.user = U2 /\ h.result = "approved" /\ h.pc = "main"

\* A reject action with the run's token, accepted from an individual who is
\* outstanding, with fewer approvals recorded than are needed
RejectAccepted(h) ==
  /\ h.kind = "reject"
  /\ h.result = "rejected"
  /\ h.user \in Range(requiredApprovers)
  /\ h.confirmed < minimumApprovalCount

\* C4: once a reject action with the run's token from an eligible individual
\* is accepted, the process does not exit with any code but 1.
C4_RejectEndsRejected ==
  (\E h \in Invocations : RejectAccepted(h)) => exitCode \in {Running, 1}

\* C5: an action whose value is not aid changes neither list, sends nothing
\* for either message and does not end the process.
C5_ForeignTokenIgnored ==
  [][\A h \in Invocations :
       (h.pc = "ack" /\ h.value # aid /\ Resumes(h))
         => /\ requiredApprovers' = requiredApprovers
            /\ approvers' = approvers
            /\ mainSent' = mainSent
            /\ replySent' = replySent
            /\ exitCode' = exitCode
            /\ After.pc = "done"
            /\ After.main = 0
            /\ After.reply = 0]_vars

\* An approve and a reject of another run attempt were both handled
C5_Witness ==
  /\ exitCode = Running
  /\ \E h \in Invocations :
       h.kind = "approve" /\ h.result = "ignored" /\ h.pc = "done"
  /\ \E h \in Invocations :
       h.kind = "reject" /\ h.result = "ignored" /\ h.pc = "done"

\* The terminal triggers that have issued their edit of the primary message
\* and of the reply message
FinalMainEdits ==
  CountIn(handlers, {h \in Invocations : h.main = 1})
    + CountIn(cancels, {c \in Cancellations : c.main = 1})

FinalReplyEdits ==
  CountIn(handlers, {h \in Invocations :
                       h.reply = 1 /\ h.result \in {"approved", "rejected"}})
    + CountIn(cancels, {c \in Cancellations : c.reply = 1})

\* C6: only one terminal trigger issues the final edit of the primary message
\* and the final edit of the reply message.
C6_TerminationOnce == FinalMainEdits <= 1 /\ FinalReplyEdits <= 1

\* C7: exit code 0 only after full approval with no reject accepted and no
\* cancellation signal received; exit code 1 whenever the process exits after
\* one of the two, and for too few approvers at startup.
RejectReceived == \E h \in Invocations : h.kind = "reject" /\ h.result = "rejected"
SignalReceived == cancels # EmptyBag

C7_ExitCode ==
  /\ exitCode = 0 =>
       /\ Len(approvers) >= minimumApprovalCount
       /\ ~RejectReceived
       /\ ~SignalReceived
  /\ (exitCode # Running /\ (RejectReceived \/ SignalReceived)) => exitCode = 1
  /\ (Resolved /\ minimumApprovalCount > ResolvedCount) => exitCode = 1

\* An approve or reject action with the run's token, about to be handled
HandlesAction(h) == h.pc = "ack" /\ h.type = "button" /\ h.value = aid

\* C11: an approve or reject action with the run's token from an actor who is
\* not outstanding changes neither list, issues no edit of the primary or of
\* the reply message and does not end the process.
C11_IneligibleDropped ==
  [][\A h \in Invocations :
       (HandlesAction(h) /\ Resumes(h) /\ h.user \notin Range(requiredApprovers))
         => /\ requiredApprovers' = requiredApprovers
            /\ approvers' = approvers
            /\ After.main = 0
            /\ After.reply = 0
            /\ mainSent' = mainSent
            /\ replySent' = replySent
            /\ exitCode' = exitCode
            /\ After.pc = "done"]_vars

\* C12: the last edit issued for the primary message matches the exit code:
\* with exit code 0 it carried the success payload, or the payload the message
\* was posted with when there is none; with exit code 1 after a reject or a
\* signal it carried the failure payload, or the payload the message was
\* posted with when there is none; and the message is as posted while
\* approvals are still awaited.
C12_FinalContentMatches ==
  /\ exitCode = 0 => mainSent = finalPayload(successMessagePayload).name
  /\ (exitCode = 1 /\ (RejectReceived \/ SignalReceived))
       => mainSent = finalPayload(failMessagePayload).name
  /\ (pc = "listening" /\ Len(approvers) < minimumApprovalCount
        /\ ~RejectReceived /\ ~SignalReceived)
       => mainSent = mainMessagePayload.name

\* This step resumes the invocation c of cancelHandler
ResumesCancel(c) == CopiesIn(c, cancels') < CopiesIn(c, cancels)

\* A reject action with the run's token, accepted with fewer approvals
\* recorded than are needed
RejectBeforeThreshold(h) ==
  h.kind = "reject" /\ h.result = "rejected" /\ h.confirmed < minimumApprovalCount

\* C13: a reject or a signal that arrived when minimumApprovalCount approvals
\* were already recorded does not end the process with exit code 1; an
\* approve does not end it with exit code 0 after a reject was accepted with
\* fewer approvals recorded; and in every step of the listening process
\* approvers is left alone or extended by one element at its end and
\* requiredApprovers gains no element.
C13_TerminalNotReversed ==
  [][/\ (exitCode = Running /\ exitCode' = 1)
          => /\ \A h \in Invocations :
                  Resumes(h) => h.confirmed < minimumApprovalCount
             /\ \A c \in Cancellations :
                  ResumesCancel(c) => c.confirmed < minimumApprovalCount
     /\ (exitCode = Running /\ exitCode' = 0)
          => ~\E h \in Invocations : RejectBeforeThreshold(h)
     /\ pc = "listening"
          => /\ \/ approvers' = approvers
                \/ \E x \in Range(requiredApprovers) : approvers' = Append(approvers, x)
             /\ Len(requiredApprovers') <= Len(requiredApprovers)
             /\ Range(requiredApprovers') \subseteq Range(requiredApprovers)]_vars

\* The invocations that have read or changed the lists and have not returned
InProgress == {h \in Invocations : h.pc \in {"main", "reply"}}

\* C14: the actions are handled one at a time: at most one invocation stands
\* between its call of approve (or its acceptance of a reject) and its return,
\* and an approve handler renders the reply message from the lists as its own
\* call of approve left them.
C14_OneAtATime ==
  [][/\ CountIn(handlers, InProgress) <= 1
     /\ \A h \in Invocations :
          (Resumes(h) /\ h.kind = "approve" /\ h.pc = "main")
            => Len(approvers) = h.confirmed]_vars

\* C15: once a signal has arrived, no step changes either list, no action
\* handler issues an edit or ends the process, and the process ends only with
\* exit code 1 and with both edits of cancelHandler issued.
C15_SignalPreempts ==
  [][SignalReceived =>
       /\ requiredApprovers' = requiredApprovers
       /\ approvers' = approvers
       /\ \A h \in Invocations :
            Resumes(h) => /\ After.main <= h.main
                          /\ After.reply <= h.reply
                          /\ exitCode' = exitCode
       /\ exitCode' # Running
            => /\ exitCode' = 1
               /\ \E c \in BagToSet(cancels') : c.main = 1 /\ c.reply = 1]_vars

\* The exit code an invocation that was past its checks ends the process
\* with, if any
Outcome(h) ==
  CASE h.result = "approved" -> 0
    [] h.result = "rejected" -> 1
    [] OTHER -> Running

\* C16: when a message edit of an approve or reject handler returns or throws,
\* neither list changes, no edit is issued again, and the handler either goes
\* on to its edit of the reply message or ends with the outcome it had decided
\* before the edit: exit code 0 after approved, 1 after a reject, and no exit
\* otherwise.
C16_EditFailureHarmless ==
  [][\A h \in Invocations :
       (Resumes(h) /\ h.pc \in {"main", "reply"})
         => /\ requiredApprovers' = requiredApprovers
            /\ approvers' = approvers
            /\ mainSent' = mainSent
            /\ After.main <= h.main
            /\ IF After.pc = "reply"
                 THEN /\ h.pc = "main"
                      /\ After.reply = h.reply + 1
                      /\ exitCode' = exitCode
                 ELSE /\ After.pc = "done"
                      /\ After.reply <= h.reply
                      /\ replySent' = replySent
                      /\ exitCode' = Outcome(h)]_vars

\* An approve handler whose edit of the primary message threw has ended the
\* process with exit code 0, the approval recorded
C16_Witness ==
  /\ exitCode = 0
  /\ approvers = <<U1>>
  /\ \E h \in Invocations :
       /\ h.kind = "approve"
       /\ h.result = "approved"
       /\ h.pc = "done"
       /\ h.main = 1
       /\ h.reply = 0

\* The lookup of a group failed: it threw or its response was not ok
Failed(res) == res.threw \/ ~res.ok

\* C17: a lookup that fails adds nothing to requiredApprovers and leaves the
\* run in the expansion loop; the minimum check is reached only with every
\* group looked up, and requiredApprovers then holds the listed individuals
\* and the members every lookup that succeeded returned.
C17_FailedLookupNoMembers ==
  [][/\ (pc = "expand" /\ lookups' # lookups /\ Failed(lookups'[Len(lookups')]))
          => /\ requiredApprovers' = requiredApprovers
             /\ pc' = "expand"
             /\ exitCode' = exitCode
     /\ (pc = "expand" /\ pc' # "expand")
          => /\ Len(lookups) = Len(userGroupIds)
             /\ Range(requiredApprovers) =
                  Range(DirectIds) \cup
                  UNION {Range(lookups[i].users) :
                           i \in {j \in 1..Len(lookups) : ~Failed(lookups[j])}}]_vars

\* The first of two groups failed, the second gave its members, and the run
\* went past the minimum check with U1 listed and U3, U2 from the second group
C17_Witness ==
  /\ pc = "postMain"
  /\ Len(lookups) = 2
  /\ Failed(lookups[1])
  /\ lookups[2] = Users(<<U3, U2, U3>>)
  /\ requiredApprovers = <<U1, U3, U2>>

\* The two fragments renderReplyBody chooses between
ButtonPair == [type |-> "actions", approve |-> aid, reject |-> aid]
ApprovedNotice == [type |-> "section", text |-> "Approved"]

\* C18: renderReplyBody gives the pair of buttons, both with aid as value,
\* exactly when fewer than minimumApprovalCount approvals are recorded, and
\* the approved notice exactly when that many are; the reply posted at startup
\* ends with the buttons, and no edit of the reply issued with
\* minimumApprovalCount approvals recorded holds them.  (A reject handler
\* sends the blocks of the message its button was in less the last, which is
\* where the buttons were.)
C18_ButtonsWhileAwaiting ==
  [][/\ renderReplyBody = ButtonPair <=> Len(approvers) < minimumApprovalCount
     /\ renderReplyBody = ApprovedNotice <=> Len(approvers) >= minimumApprovalCount
     /\ pc = "postReply" => replySent'[Len(replySent')] = ButtonPair
     /\ \A h \in Invocations :
          (Resumes(h) /\ After.reply > h.reply
             /\ Len(approvers') >= minimumApprovalCount)
            => ButtonPair \notin Range(replySent')
     /\ \A c \in Cancellations :
          (ResumesCancel(c) /\ replySent' # replySent
             /\ Len(approvers') >= minimumApprovalCount)
            => ButtonPair \notin Range(replySent')]_vars

\* The approve handler that reached minimumApprovalCount has issued its edit
\* of the reply, which ends with the approved notice
C18_Witness ==
  /\ exitCode = Running
  /\ Len(approvers) = minimumApprovalCount
  /\ replySent # NoMessage
  /\ replySent[Len(replySent)] = ApprovedNotice
  /\ \E h \in Invocations :
       h.kind = "approve" /\ h.result = "approved" /\ h.pc = "reply" /\ h.reply = 1

\* C19: a terminal trigger does not leave the process running: once the
\* handler of an approve that returned approved, of an accepted reject or of a
\* signal has run to its end, whether its edits returned or threw, the process
\* has exited.
C19_TriggerEndsProcess ==
  /\ \A h \in Invocations :
       (h.pc = "done" /\ h.result \in {"approved", "rejected"})
         => exitCode # Running
  /\ \A c \in Cancellations : c.pc = "done" => exitCode # Running

\* C20: approvers never holds an identifier twice, and the process has exit
\* code 0 only with at least minimumApprovalCount different identifiers in
\* approvers.
C20_DistinctApprovals ==
  /\ NoDuplicates(approvers)
  /\ exitCode = 0 => Cardinality(Range(approvers)) >= minimumApprovalCount

====
